---- MODULE Spec2Model ----
(***************************************************************************)
(* Model of docs/sphinx/conf.py: the evaluation of the configuration       *)
(* module, statement by statement, into its namespace, and the setup(app)  *)
(* hook that the documentation builder calls with an application handle.   *)
(***************************************************************************)
EXTENDS Integers, Sequences, FiniteSets, TLC

VARIABLES pc, env, assigned, executed, apps, log

vars == <<pc, env, assigned, executed, apps, log>>

(* ---- bounds ---------------------------------------------------------- *)

\* number of application handles the builder holds
NumApps == 2
\* longest list of stylesheets a handle carries before the first setup call
MaxPrior == 1
\* most setup calls the builder makes in one run
MaxCalls == 3

(* ---- Python values ---------------------------------------------------- *)

Str(s) == [tag |-> "str", v |-> s]
Bool(b) == [tag |-> "bool", v |-> b]
IntVal(n) == [tag |-> "int", v |-> n]
None == [tag |-> "NoneType", v |-> <<>>]
List(items) == [tag |-> "list", v |-> items]
Tuple(items) == [tag |-> "tuple", v |-> items]
\* a dict literal: its key/value pairs in insertion order
Dict(pairs) == [tag |-> "dict", v |-> pairs]
Module(name) == [tag |-> "module", v |-> name]
\* a function object: its name, its parameters and its body
Function(name, params, body) == [tag |-> "function", v |-> <<name, params, body>>]
\* a name the namespace does not bind
Unbound == [tag |-> "unbound", v |-> <<>>]

Keys(d) == {d.v[i][1] : i \in 1..Len(d.v)}
\* d[k] for a key the dict holds (the last pair with that key wins)
Lookup(d, k) ==
    LET idx == {i \in 1..Len(d.v) : d.v[i][1] = k}
        last == CHOOSE i \in idx : \A j \in idx : j <= i
    IN d.v[last][2]
Items(l) == {l.v[i] : i \in 1..Len(l.v)}

(* ---- the configuration values, conf.py lines 12-80 -------------------- *)

project == Str("Nix Model Repo")
copyright == Str("2024, Nix Model Repo Contributors")
author == Str("Nix Model Repo Contributors")
release == Str("0.1.0")
\* the short version written without quotes: a float, not a string
version_Unquoted == [tag |-> "float", v |-> "0.1"]
version == Str("0.1")

\* the extension list with the Markdown parser left out
extensions_NoMyst ==
    List(<<Str("sphinx.ext.autodoc"), Str("sphinx.ext.viewcode"),
           Str("sphinx.ext.intersphinx"), Str("sphinx.ext.todo"),
           Str("sphinx_copybutton")>>)
extensions ==
    List(<<Str("sphinx.ext.autodoc"), Str("sphinx.ext.viewcode"),
           Str("sphinx.ext.intersphinx"), Str("sphinx.ext.todo"),
           Str("sphinx_copybutton"), Str("myst_parser")>>)

templates_path == List(<<Str("_templates")>>)
exclude_patterns == List(<<Str("_build"), Str("Thumbs.db"), Str(".DS_Store")>>)

\* the suffix mapping with the Markdown entry left out
source_suffix_RstOnly == Dict(<< <<Str(".rst"), Str("restructuredtext")>> >>)
source_suffix ==
    Dict(<< <<Str(".rst"), Str("restructuredtext")>>,
            <<Str(".md"), Str("markdown")>> >>)

master_doc == Str("index")

html_theme == Str("furo")
\* no static directory configured
html_static_path_Empty == List(<<>>)
html_static_path == List(<<Str("_static")>>)

html_theme_options ==
    Dict(<< <<Str("light_css_variables"),
              Dict(<< <<Str("color-brand-primary"), Str("#7C3AED")>>,
                      <<Str("color-brand-content"), Str("#7C3AED")>> >>)>>,
            <<Str("dark_css_variables"),
              Dict(<< <<Str("color-brand-primary"), Str("#A78BFA")>>,
                      <<Str("color-brand-content"), Str("#A78BFA")>> >>)>>,
            <<Str("sidebar_hide_name"), Bool(FALSE)>>,
            <<Str("navigation_with_keys"), Bool(TRUE)>> >>)

html_title == Str("Nix Model Repo")
html_short_title == Str("nix-model-repo")

intersphinx_mapping ==
    Dict(<< <<Str("python"), Tuple(<<Str("https://docs.python.org/3"), None>>)>> >>)

todo_include_todos == Bool(TRUE)

myst_enable_extensions ==
    List(<<Str("colon_fence"), Str("deflist"), Str("fieldlist"), Str("tasklist")>>)

myst_heading_anchors == IntVal(3)

(* ---- the module body, conf.py lines 6-84 ------------------------------ *)

Import(name) == [kind |-> "import", name |-> name, value |-> Module(name)]
Assign(name, value) == [kind |-> "assign", name |-> name, value |-> value]
Def(name, params, body) ==
    [kind |-> "def", name |-> name, value |-> Function(name, params, body)]
\* the expression statement  recv.method(arg)  of a function body
Call(recv, method, arg) == [recv |-> recv, method |-> method, arg |-> arg]

\* a body that also registers a script
setup_body_TwoCalls ==
    <<Call("app", "add_css_file", "custom.css"), Call("app", "add_js_file", "custom.js")>>
\* a body written against the older registration method
setup_body_OldApi == <<Call("app", "add_stylesheet", "custom.css")>>
\* def setup(app): app.add_css_file('custom.css')
setup_body == <<Call("app", "add_css_file", "custom.css")>>

\* the module with version assigned a second time, after release
Program_Reassign ==
    << Import("os"), Import("sys"),
       Assign("project", project), Assign("copyright", copyright),
       Assign("author", author), Assign("release", release),
       Assign("version", version), Assign("version", release),
       Assign("extensions", extensions), Assign("templates_path", templates_path),
       Assign("exclude_patterns", exclude_patterns),
       Assign("source_suffix", source_suffix), Assign("master_doc", master_doc),
       Assign("html_theme", html_theme), Assign("html_static_path", html_static_path),
       Assign("html_theme_options", html_theme_options),
       Assign("html_title", html_title), Assign("html_short_title", html_short_title),
       Assign("intersphinx_mapping", intersphinx_mapping),
       Assign("todo_include_todos", todo_include_todos),
       Assign("myst_enable_extensions", myst_enable_extensions),
       Assign("myst_heading_anchors", myst_heading_anchors),
       Def("setup", <<"app">>, setup_body) >>

\* the statements of conf.py in source order
Program ==
    << Import("os"),
       Import("sys"),
       Assign("project", project),
       Assign("copyright", copyright),
       Assign("author", author),
       Assign("release", release),
       Assign("version", version),
       Assign("extensions", extensions),
       Assign("templates_path", templates_path),
       Assign("exclude_patterns", exclude_patterns),
       Assign("source_suffix", source_suffix),
       Assign("master_doc", master_doc),
       Assign("html_theme", html_theme),
       Assign("html_static_path", html_static_path),
       Assign("html_theme_options", html_theme_options),
       Assign("html_title", html_title),
       Assign("html_short_title", html_short_title),
       Assign("intersphinx_mapping", intersphinx_mapping),
       Assign("todo_include_todos", todo_include_todos),
       Assign("myst_enable_extensions", myst_enable_extensions),
       Assign("myst_heading_anchors", myst_heading_anchors),
       Def("setup", <<"app">>, setup_body) >>

\* the configuration variables the module assigns
ConfigVars ==
    {"project", "copyright", "author", "release", "version", "extensions",
     "templates_path", "exclude_patterns", "source_suffix", "master_doc",
     "html_theme", "html_static_path", "html_theme_options", "html_title",
     "html_short_title", "intersphinx_mapping", "todo_include_todos",
     "myst_enable_extensions", "myst_heading_anchors"}

\* every name of the module namespace
Names == ConfigVars \cup {"os", "sys", "setup"}

Loaded == pc = Len(Program)

(* ---- the application handle passed to setup --------------------------- *)

Apps == 1..NumApps

\* stylesheets a handle may already carry
Assets == {"custom.css", "theme.css"}

\* the methods a handle offers: a builder that has add_css_file, and an older
\* one that registers stylesheets under another name
MethodSets == {{"add_css_file", "add_js_file"}, {"add_stylesheet", "add_javascript"}}

PriorLists == UNION {[1..n -> Assets] : n \in 0..MaxPrior}

Handles == [methods : MethodSets, css_files : PriorLists, calls : {<<>>}]

\* h.method(arg) on a handle that offers the method: the call is received and,
\* for add_css_file, the file joins the handle's stylesheets
Invoke(h, method, arg) ==
    [h EXCEPT !.calls = Append(@, <<method, arg>>),
              !.css_files = IF method = "add_css_file" THEN Append(@, arg) ELSE @]

\* runs the statements of a function body on the handle bound to its
\* parameter; an attribute the handle lacks raises AttributeError, which
\* nothing in the body catches
RECURSIVE RunBody(_, _)
RunBody(body, h) ==
    IF body = <<>> THEN [handle |-> h, outcome |-> "returned"]
    ELSE IF Head(body).method \notin h.methods
         THEN [handle |-> h, outcome |-> "AttributeError"]
         ELSE RunBody(Tail(body), Invoke(h, Head(body).method, Head(body).arg))

(* ---- state machine ---------------------------------------------------- *)

Init ==
    /\ pc = 0
    /\ env = [n \in Names |-> Unbound]
    /\ assigned = [n \in Names |-> 0]
    /\ executed = <<>>
    /\ apps \in [Apps -> Handles]
    /\ log = <<>>

\* an interpreter that blocks before the function definition
ExecStatement_Blocks ==
    /\ pc < Len(Program)
    /\ Program[pc + 1].kind # "def"
    /\ LET s == Program[pc + 1] IN
         /\ env' = [env EXCEPT ![s.name] = s.value]
         /\ assigned' = [assigned EXCEPT ![s.name] = @ + 1]
    /\ pc' = pc + 1
    /\ executed' = Append(executed, pc + 1)
    /\ UNCHANGED <<apps, log>>

\* the interpreter executes the next statement of the module
ExecStatement ==
    /\ pc < Len(Program)
    /\ LET s == Program[pc + 1] IN
         /\ env' = [env EXCEPT ![s.name] = s.value]
         /\ assigned' = [assigned EXCEPT ![s.name] = @ + 1]
    /\ pc' = pc + 1
    /\ executed' = Append(executed, pc + 1)
    /\ UNCHANGED <<apps, log>>

\* the builder calls setup(app) on the function the namespace binds
setup(a) ==
    /\ env["setup"].tag = "function"
    /\ Len(log) < MaxCalls
    /\ LET r == RunBody(env["setup"].v[3], apps[a]) IN
         /\ apps' = [apps EXCEPT ![a] = r.handle]
         /\ log' = Append(log, [app |-> a, outcome |-> r.outcome])
    /\ UNCHANGED <<pc, env, assigned, executed>>

Next ==
    \/ ExecStatement
    \/ \E a \in Apps : setup(a)

Spec == Init /\ [][Next]_vars

\* module evaluation is synchronous: the interpreter always runs the next statement
FairSpec == Spec /\ WF_vars(ExecStatement)

(* ---- properties ------------------------------------------------------- *)

Bound(n) == env[n] # Unbound
Offers(a) == "add_css_file" \in apps[a].methods
\* the step is a call setup(a)
Called(a) == Len(log') = Len(log) + 1 /\ log'[Len(log')].app = a
Registration == <<"add_css_file", "custom.css">>
\* the call registered 'custom.css' on a and did nothing else
OneRegistration(a) ==
    /\ apps'[a].calls = Append(apps[a].calls, Registration)
    /\ apps'[a].css_files = Append(apps[a].css_files, "custom.css")
    /\ apps'[a].methods = apps[a].methods
    /\ \A b \in Apps \ {a} : apps'[b] = apps[b]
    /\ env' = env /\ assigned' = assigned /\ pc' = pc

\* C1 as stated: on every handle and in every prior state of it, one call
\* setup(app) performs exactly the registration add_css_file('custom.css') and
\* changes nothing else.
C1_AnyHandle == [][\A a \in Apps : Called(a) => OneRegistration(a)]_vars

\* C1 amended: on a handle that offers add_css_file, one call setup(app) performs
\* exactly the registration add_css_file('custom.css') and changes nothing else;
\* on a handle that does not offer it, the call performs no registration and
\* changes no handle and no configuration variable.
C1_OfferingHandle ==
    [][\A a \in Apps : Called(a) =>
          /\ Offers(a) => OneRegistration(a)
          /\ ~Offers(a) => (apps' = apps /\ env' = env /\ assigned' = assigned /\ pc' = pc)]_vars

\* setup has registered on a handle that already carried a stylesheet, and has
\* been called on a handle without add_css_file
C1_Witness ==
    /\ \E a \in Apps : apps[a].calls = <<Registration>> /\ Len(apps[a].css_files) = 2
    /\ \E i \in 1..Len(log) : ~Offers(log[i].app)

\* C2: every configuration variable is assigned exactly once during module load
\* and keeps that value in every later state, whatever setup calls follow.
C2_AssignedOnce ==
    /\ [](\A n \in ConfigVars :
            /\ assigned[n] <= 1
            /\ Bound(n) <=> assigned[n] = 1
            /\ Loaded => assigned[n] = 1)
    /\ [][\A n \in ConfigVars : Bound(n) => env'[n] = env[n]]_vars

\* the module is loaded and several setup calls have followed
C2_Witness == Loaded /\ Len(log) = MaxCalls /\ \A n \in ConfigVars : assigned[n] = 1

IsStr(x) == x.tag = "str"
IsListOfStr(x) == x.tag = "list" /\ \A i \in 1..Len(x.v) : IsStr(x.v[i])
IsDictWithStrKeys(x) == x.tag = "dict" /\ \A k \in Keys(x) : IsStr(k)
\* a (target URL, inventory) pair whose inventory is None
IsTarget(x) == x.tag = "tuple" /\ Len(x.v) = 2 /\ IsStr(x.v[1]) /\ x.v[2] = None

\* C3: when module load has completed, every statement has run and the fields
\* the builder requires are present and correctly typed.
C3_WellTyped ==
    Loaded =>
        /\ Len(executed) = Len(Program)
        /\ \A n \in {"project", "author", "version", "release", "html_theme"} :
               IsStr(env[n])
        /\ IsListOfStr(env["extensions"])
        /\ IsDictWithStrKeys(env["html_theme_options"])
        /\ IsDictWithStrKeys(env["source_suffix"])
        /\ IsDictWithStrKeys(env["intersphinx_mapping"])
        /\ \A i \in 1..Len(env["intersphinx_mapping"].v) :
               IsTarget(env["intersphinx_mapping"].v[i][2])
        /\ env["setup"].tag = "function"
        /\ Len(env["setup"].v[2]) = 1

\* the module is loaded and the namespace binds every name
C3_Witness == Loaded /\ \A n \in Names : Bound(n)

\* C4: module evaluation runs the statements once each in source order, never
\* calls setup and never touches a handle while it runs, and terminates.
C4_SingleShot ==
    /\ [](executed = [i \in 1..pc |-> i])
    /\ [](~Loaded => log = <<>> /\ \A a \in Apps : apps[a].calls = <<>>)
    /\ [][pc' # pc => pc' = pc + 1 /\ apps' = apps /\ log' = log]_vars
    /\ <>Loaded

\* module evaluation has run to its last statement and nothing has called setup
C4_Witness == Loaded /\ Len(executed) = Len(Program) /\ log = <<>>

\* C5 as stated: no call setup(app) ends in an error, whatever handle is passed.
C5_NeverRaises == \A i \in 1..Len(log) : log[i].outcome = "returned"

\* C5 amended: setup(app) returns normally on every handle that offers
\* add_css_file, also when 'custom.css' is already registered on it; on a handle
\* that does not offer add_css_file the call ends in AttributeError.
C5_RaisesOnlyWithoutMethod ==
    \A i \in 1..Len(log) :
        /\ Offers(log[i].app) => log[i].outcome = "returned"
        /\ ~Offers(log[i].app) => log[i].outcome = "AttributeError"

\* setup returned twice on one handle that already carried 'custom.css', and raised
\* on a handle without add_css_file
C5_Witness ==
    /\ \E a \in Apps :
          /\ apps[a].css_files = <<"custom.css", "custom.css", "custom.css">>
          /\ Len(apps[a].calls) = 2
    /\ \E i \in 1..Len(log) : log[i].outcome = "AttributeError"

\* C6: source_suffix has exactly the keys '.rst' and '.md', one parser each:
\* '.rst' -> 'restructuredtext', '.md' -> 'markdown'.
C6_BothSuffixes ==
    Bound("source_suffix") =>
        /\ Keys(env["source_suffix"]) = {Str(".rst"), Str(".md")}
        /\ Len(env["source_suffix"].v) = 2
        /\ Lookup(env["source_suffix"], Str(".rst")) = Str("restructuredtext")
        /\ Lookup(env["source_suffix"], Str(".md")) = Str("markdown")

\* source_suffix has been assigned a mapping
C6_Witness == env["source_suffix"].tag = "dict" /\ env["master_doc"] = Unbound

\* the extension each extension-specific setting belongs to
Requires ==
    [intersphinx_mapping |-> "sphinx.ext.intersphinx",
     todo_include_todos |-> "sphinx.ext.todo",
     myst_enable_extensions |-> "myst_parser",
     myst_heading_anchors |-> "myst_parser"]
Listed(ext) == Str(ext) \in Items(env["extensions"])
UsesParser(parser) ==
    \E i \in 1..Len(env["source_suffix"].v) : env["source_suffix"].v[i][2] = Str(parser)

\* C7: in every state, each extension-specific setting that is present belongs
\* to an extension listed in extensions.
C7_SettingsHaveExtension ==
    /\ \A n \in DOMAIN Requires : Bound(n) => Listed(Requires[n])
    /\ UsesParser("markdown") => Listed("myst_parser")

\* all extension-specific settings are present
C7_Witness == UsesParser("markdown") /\ \A n \in DOMAIN Requires : Bound(n)

\* C8: at the moment 'custom.css' is registered on a handle, html_static_path
\* is ['_static'] and every configuration variable is assigned.
C8_RegisteredAfterConfig ==
    [][(\E a \in Apps : apps'[a].calls # apps[a].calls) =>
          /\ env["html_static_path"] = List(<<Str("_static")>>)
          /\ Len(env["html_static_path"].v) > 0
          /\ \A n \in ConfigVars : Bound(n)]_vars

\* 'custom.css' has been registered through setup
C8_Witness == \E a \in Apps : Registration \in {apps[a].calls[i] : i \in 1..Len(apps[a].calls)}

====
